---- MODULE Spec2Model ----
(***************************************************************************)
(* Task-extraction core of the NLP backend:                                *)
(*   _LRUCache, TaskExtractor.extract_task / batch_extract_tasks /         *)
(*   validate_task   (src/src/backend/nlp/core/task_extraction.py)         *)
(*   CommunicationProcessor.process_communication                          *)
(*                   (src/src/backend/nlp/services/communication_processor.py) *)
(*                                                                         *)
(* Texts, format names and entity labels are sequences of tokens; floats   *)
(* are exact rationals [num, den] in thousandths (1.0 is 1000/1).  Python  *)
(* objects that can be aliased carry an object identity `oid`.  Every      *)
(* thread of control (the synchronous caller, and one worker task          *)
(* per chunk of a batch) has a program counter; a step is one operation    *)
(* the interpreter executes without releasing the GIL.                     *)
(***************************************************************************)
EXTENDS Integers, Sequences, FiniteSets, TLC

(* ------------------------------ bounds -------------------------------- *)
\* largest cache_size the extractor is constructed with
MaxCapacity == 2
\* longest list handed to batch_extract_tasks
MaxLen == 3
\* largest config["max_workers"] the extractor is constructed with
MaxWorkers == 2
\* largest retry_config["max_attempts"]
MaxAttempts == 3
\* the clock's last second
MaxTime == 4
\* largest cache_ttl an EntityExtractor is constructed with
MaxTTL == 2
\* most seconds that go by between two readings of the clock within a call
MaxElapsed == 1

(* -------------------------- program constants -------------------------- *)
\* processing_thresholds.get("task_confidence", 0.6), in thousandths
TaskConfidence == 600
\* processing_thresholds.get("entity_confidence", 0.5), in thousandths
EntityConfidence == 500

(* ------------------------------ values --------------------------------- *)
None == "<None>"
NoneObj == [kind |-> "None"]
WS == " "
SEP == "::"

Range(s) == {s[i] : i \in 1..Len(s)}

RECURSIVE SumSeq(_)
SumSeq(s) == IF s = <<>> THEN 0 ELSE Head(s) + SumSeq(Tail(s))

\* exact rationals with positive denominators
Rat(n, d) == [num |-> n, den |-> d]
RatLess(a, b) == a.num * b.den < b.num * a.den

(* ------------------- text cleaning (utils/preprocessing) --------------- *)
\* str.strip() on a token sequence: whitespace tokens removed at both ends
RECURSIVE LStrip(_)
LStrip(s) == IF s # <<>> /\ Head(s) = WS THEN LStrip(Tail(s)) ELSE s

RECURSIVE RStrip(_)
RStrip(s) ==
    IF s # <<>> /\ s[Len(s)] = WS THEN RStrip(SubSeq(s, 1, Len(s) - 1)) ELSE s

Strip(s) == RStrip(LStrip(s))

\* re.sub(r"[ \t]+", " ", text): runs of whitespace become one
RECURSIVE CollapseWS(_)
CollapseWS(s) ==
    IF Len(s) < 2 THEN s
    ELSE IF s[1] = WS /\ s[2] = WS THEN CollapseWS(Tail(s))
    ELSE <<s[1]>> \o CollapseWS(Tail(s))

normalize_whitespace(text) == Strip(CollapseWS(text))

\* clean_text with lowercase=False and no unwanted_chars, as extract_task calls it
clean_text(text) == normalize_whitespace(normalize_whitespace(text))

(* --------------------- collaborators (fixed outputs) ------------------- *)
\* the texts the callers submit
TxtA == <<"alice", WS, "friday">>
TxtB == <<WS, "bob", WS>>
TxtC == <<"carol">>
TxtEmpty == <<>>
TxtBlank == <<WS>>
Texts == {TxtA, TxtB, TxtC, TxtEmpty, TxtBlank}
Formats == {<<"email">>, <<"chat">>}

\* what the BERT model predicts for a cleaned text: (label, max softmax probability)
ModelIntent(cleaned) ==
    CASE cleaned = <<"alice", WS, "friday">> -> [label |-> "TASK_RELEVANT", confidence |-> 900]
      [] cleaned = <<"bob">>                 -> [label |-> "OTHER", confidence |-> 400]
      [] cleaned = <<"re", SEP, "carol">>    -> [label |-> "TASK_RELEVANT", confidence |-> 800]
      [] OTHER                               -> [label |-> "TASK_RELEVANT", confidence |-> 700]

\* what the NER model predicts for a cleaned text, in token order
ModelEntities(cleaned) ==
    CASE cleaned = <<"alice", WS, "friday">> ->
            << [entity |-> <<"B", "ASSIGNEE">>, token |-> "alice", confidence |-> 950],
               [entity |-> <<"B", "DEADLINE">>, token |-> "friday", confidence |-> 850],
               [entity |-> <<"B", "ASSIGNEE">>, token |-> "friday", confidence |-> 700] >>
      [] cleaned = <<"bob">> ->
            << [entity |-> <<"b", "assignee">>, token |-> "bob", confidence |-> 650],
               [entity |-> <<"O">>, token |-> "bob", confidence |-> 300] >>
      [] OTHER -> << >>

\* BERTClassifier.classify: ValueError on empty text, label None below threshold
ClassifyRaises(cleaned) == Strip(cleaned) = <<>>

classify(cleaned, confidence_threshold) ==
    LET m == ModelIntent(cleaned)
    IN  [label |-> IF m.confidence >= confidence_threshold THEN m.label ELSE None,
         confidence |-> m.confidence]

\* TaskNERModel.extract_entities: no entities for blank text, else those at
\* or above the threshold
extract_entities(cleaned, confidence_threshold) ==
    IF Strip(cleaned) = <<>> THEN << >>
    ELSE SelectSeq(ModelEntities(cleaned), LAMBDA e : e.confidence >= confidence_threshold)

(* ------------------------ TaskExtractor, pure part --------------------- *)
required_fields == <<"title", "description", "assignee", "deadline", "priority", "confidence_scores">>

Falsy(x) == x = None \/ x = ""

Upper(tok) ==
    CASE tok = "b" -> "B"
      [] tok = "assignee" -> "ASSIGNEE"
      [] tok = "title" -> "TITLE"
      [] tok = "deadline" -> "DEADLINE"
      [] tok = "priority" -> "PRIORITY"
      [] OTHER -> tok

\* "WORD" in label.upper()
LabelHas(label, word) == \E i \in 1..Len(label) : Upper(label[i]) = word

\* one iteration of the field-mapping loop
MapEntity(task, ent) ==
    IF LabelHas(ent.entity, "TITLE") /\ Falsy(task.title) THEN [task EXCEPT !.title = ent.token]
    ELSE IF LabelHas(ent.entity, "ASSIGNEE") /\ Falsy(task.assignee) THEN [task EXCEPT !.assignee = ent.token]
    ELSE IF LabelHas(ent.entity, "DEADLINE") /\ Falsy(task.deadline) THEN [task EXCEPT !.deadline = ent.token]
    ELSE IF LabelHas(ent.entity, "PRIORITY") /\ Falsy(task.priority) THEN [task EXCEPT !.priority = ent.token]
    ELSE task

RECURSIVE MapEntities(_, _)
MapEntities(task, ents) ==
    IF ents = << >> THEN task ELSE MapEntities(MapEntity(task, Head(ents)), Tail(ents))

\* (intent_conf + entity_conf) / 2.0 with entity_conf the mean, 0.0 without entities
CombinedConf(intent_conf, ents) ==
    IF ents = << >> THEN Rat(intent_conf, 2)
    ELSE Rat(intent_conf * Len(ents) + SumSeq([i \in 1..Len(ents) |-> ents[i].confidence]),
             2 * Len(ents))

EntityConf(ents) ==
    IF ents = << >> THEN Rat(0, 1)
    ELSE Rat(SumSeq([i \in 1..Len(ents) |-> ents[i].confidence]), Len(ents))

\* Python values that are neither str nor None, written as tagged strings
NotStrings == {"<int 42>", "<list []>"}
\* isinstance(x, (str, type(None)))
IsStrOrNone(x) == x \notin NotStrings
\* isinstance(x, dict): a Python value that is not a dict is written [pytype |-> ...]
IsDict(x) == "pytype" \notin DOMAIN x

\* lines 392-394: for f in required_fields: if f not in task_data
HasMissing(task_data) == \E i \in 1..Len(required_fields) : required_fields[i] \notin DOMAIN task_data
FirstMissing(task_data) ==
    LET i == CHOOSE j \in 1..Len(required_fields) :
                 /\ required_fields[j] \notin DOMAIN task_data
                 /\ \A k \in 1..(j - 1) : required_fields[k] \in DOMAIN task_data
    IN  required_fields[i]

Invalid(msg, conf) == [valid |-> FALSE, error |-> msg, final_confidence |-> conf]
OutOfRangeMsg == <<"combined_confidence score is out of valid range [0,1].">>
BelowThresholdMsg == <<"Final confidence below threshold.">>

\* line 403: task_data["confidence_scores"].get("combined_confidence", 0.0)
GetCombined(scores) ==
    IF "combined_confidence" \in DOMAIN scores THEN scores.combined_confidence ELSE Rat(0, 1)

\* the threshold is looked at before the range
CheckConfidence_ThresholdFirst(task_data, confidence_threshold) ==
    LET combined_conf == GetCombined(task_data.confidence_scores)
    IN  IF RatLess(combined_conf, Rat(confidence_threshold, 1))
        THEN Invalid(BelowThresholdMsg, combined_conf)
        ELSE IF RatLess(combined_conf, Rat(0, 1)) \/ RatLess(Rat(1000, 1), combined_conf)
        THEN Invalid(OutOfRangeMsg, combined_conf)
        ELSE [valid |-> TRUE, error |-> << >>, final_confidence |-> combined_conf]

\* lines 402-420: the range check, then the threshold check
CheckConfidence(task_data, confidence_threshold) ==
    LET combined_conf == GetCombined(task_data.confidence_scores)
    IN  IF RatLess(combined_conf, Rat(0, 1)) \/ RatLess(Rat(1000, 1), combined_conf)
        THEN Invalid(OutOfRangeMsg, combined_conf)
        ELSE IF RatLess(combined_conf, Rat(confidence_threshold, 1))
        THEN Invalid(BelowThresholdMsg, combined_conf)
        ELSE [valid |-> TRUE, error |-> << >>, final_confidence |-> combined_conf]

\* a validation without the check of the title's type
validate_task_NoTitleCheck(task_data, confidence_threshold) ==
    IF HasMissing(task_data)
    THEN Invalid(<<"Missing required field: ", FirstMissing(task_data)>>, Rat(0, 1))
    ELSE IF ~IsDict(task_data.confidence_scores)
    THEN Invalid(<<"confidence_scores must be a dictionary.">>, Rat(0, 1))
    ELSE CheckConfidence(task_data, confidence_threshold)

\* a validation whose message always names the first required field
validate_task_NamesFirstField(task_data, confidence_threshold) ==
    IF HasMissing(task_data)
    THEN Invalid(<<"Missing required field: ", required_fields[1]>>, Rat(0, 1))
    ELSE IF ~IsStrOrNone(task_data.title)
    THEN Invalid(<<"Field 'title' must be a string or None.">>, Rat(0, 1))
    ELSE IF ~IsDict(task_data.confidence_scores)
    THEN Invalid(<<"confidence_scores must be a dictionary.">>, Rat(0, 1))
    ELSE CheckConfidence(task_data, confidence_threshold)

validate_task(task_data, confidence_threshold) ==
    IF HasMissing(task_data)
    THEN Invalid(<<"Missing required field: ", FirstMissing(task_data)>>, Rat(0, 1))
    ELSE IF ~IsStrOrNone(task_data.title)
    THEN Invalid(<<"Field 'title' must be a string or None.">>, Rat(0, 1))
    ELSE IF ~IsDict(task_data.confidence_scores)
    THEN Invalid(<<"confidence_scores must be a dictionary.">>, Rat(0, 1))
    ELSE CheckConfidence(task_data, confidence_threshold)

\* lines 207-243 of extract_task: the task dict with its scores and the mapped fields
MappedTask(classification_result, entities_list) ==
    LET intent_conf == classification_result.confidence
        empty == [title |-> None, description |-> None, assignee |-> None,
                  deadline |-> None, priority |-> None,
                  confidence_scores |->
                      [intent_confidence |-> Rat(intent_conf, 1),
                       entity_confidence |-> EntityConf(entities_list),
                       combined_confidence |-> CombinedConf(intent_conf, entities_list)]]
    IN  MapEntities(empty, entities_list)

\* a task whose description never names the intent
ExtractedTask_AlwaysMarker(classification_result, entities_list) ==
    [MappedTask(classification_result, entities_list)
        EXCEPT !.description = <<"No distinct classification label">>]

\* lines 207-253 of extract_task: the mapped task with the description derived
\* from the intent label
ExtractedTask(classification_result, entities_list) ==
    LET mapped == MappedTask(classification_result, entities_list)
    IN  IF Falsy(mapped.description)
        THEN [mapped EXCEPT !.description =
                 IF Falsy(classification_result.label)
                 THEN <<"No distinct classification label">>
                 ELSE <<"Classified intent: ", classification_result.label>>]
        ELSE mapped

\* a result whose task_info leaves out the fields no entity filled
BuildResult_SparseTask(classification_result, entities_list, oid) ==
    LET t == ExtractedTask(classification_result, entities_list)
        sparse == [k \in {f \in DOMAIN t : f \in {"description", "confidence_scores"}
                                              \/ t[f] # None} |-> t[k]]
        v == validate_task(sparse, TaskConfidence)
    IN  [kind |-> "result", oid |-> oid, task_info |-> sparse, valid |-> v.valid,
         error |-> v.error, final_confidence |-> v.final_confidence]

\* steps 5-7 of extract_task: the result_data built from the collaborators' outputs
BuildResult(classification_result, entities_list, oid) ==
    LET extracted_task == ExtractedTask(classification_result, entities_list)
        v == validate_task(extracted_task, TaskConfidence)
    IN  [kind |-> "result", oid |-> oid, task_info |-> extracted_task, valid |-> v.valid,
         error |-> v.error, final_confidence |-> v.final_confidence]

\* a key that leaves the text out
CacheKey_NoText(format_type, text) == <<"extract_task", SEP>> \o format_type

\* f"extract_task::{format_type}::{text}"
CacheKey(format_type, text) == <<"extract_task", SEP>> \o format_type \o <<SEP>> \o text

\* what extract_task computes for (text, format_type) when no collaborator fails
ResultOf(text, oid) ==
    LET cleaned == clean_text(text)
    IN  BuildResult(classify(cleaned, TaskConfidence),
                    extract_entities(cleaned, TaskConfidence), oid)

\* the content of a result, its object identity set aside (Python's ==)
Content(r) == [r EXCEPT !.oid = 0]

(* ------------------------------- state --------------------------------- *)
VARIABLES
    capacity,     \* _LRUCache.capacity
    cache_map,    \* _LRUCache.cache_map: the OrderedDict as a sequence of [key, value], oldest first
    th,           \* per thread: program counter and locals of the call it is executing
    uses,         \* history: the `capacity` most recently used keys, oldest first (a use is a get hit or a set)
    first,        \* history: one earlier extract_task call with use_cache and what it returned
    batch,        \* the running batch_extract_tasks call
    pcall,        \* the running process_communication call
    bproc,        \* the running batch_process call
    fn,           \* the running call of a method called on its own: its arguments and what it returned
    ee            \* EntityExtractor: cache (key -> timestamp and data), cache_ttl, and the clock time.time() reads

vars == <<capacity, cache_map, th, uses, first, batch, pcall, bproc, fn, ee>>

\* thread 0 is the synchronous caller
Main == 0
\* one worker task per chunk of a batch; the chunk's number names the thread
Threads == {Main} \cup (1..MaxLen)

IdleThread ==
    [pc |-> "idle", cont |-> "none", key |-> << >>, val |-> NoneObj, text |-> << >>,
     fmt |-> << >>, use_cache |-> FALSE, cls |-> NoneObj, out |-> NoneObj, exc |-> None,
     hit |-> FALSE, called |-> << >>, oid |-> 0, op |-> "none", before |-> << >>,
     last_set |-> << >>]

(* ------------------------------ _LRUCache ------------------------------ *)
Keys(m) == {m[i].key : i \in 1..Len(m)}
KeySeq(m) == [i \in 1..Len(m) |-> m[i].key]
ValueAt(m, k) == LET i == CHOOSE j \in 1..Len(m) : m[j].key = k IN m[i].value
\* OrderedDict.pop(key) / del
Remove(m, k) == SelectSeq(m, LAMBDA e : e.key # k)
\* OrderedDict.__setitem__: a present key keeps its place, a new key goes last
PutItem(m, k, v) ==
    IF k \in Keys(m) THEN [i \in 1..Len(m) |-> IF m[i].key = k THEN [key |-> k, value |-> v] ELSE m[i]]
    ELSE Append(m, [key |-> k, value |-> v])

LastN(s, n) == SubSeq(s, Len(s) - n + 1, Len(s))

\* the history of uses with k as the most recent one
Touch(u, k) ==
    LET moved == SelectSeq(u, LAMBDA x : x # k) \o <<k>>
    IN  IF Len(moved) > capacity THEN LastN(moved, capacity) ELSE moved

\* a lookup whose hit is not used: the result is computed again
AfterGet_Recompute(r, v) ==
    IF r.cont = "direct" THEN [r EXCEPT !.pc = "ret", !.out = v]
    ELSE [r EXCEPT !.pc = "et_classify"]

\* where a thread continues when the cache operation it called returns or raises
AfterGet(r, v) ==
    IF r.cont = "direct" THEN [r EXCEPT !.pc = "ret", !.out = v]
    ELSE IF v # NoneObj THEN [r EXCEPT !.pc = "ret", !.out = v, !.hit = TRUE]
    ELSE [r EXCEPT !.pc = "et_classify"]

AfterSet(r) ==
    IF r.cont = "direct"
    THEN [r EXCEPT !.pc = "ret", !.out = NoneObj,
                   !.last_set = (r.key :> r.val) @@ r.last_set]
    ELSE [r EXCEPT !.pc = "ret", !.out = r.val]

\* an exception that arrives wrapped in another one
Raise_Wrapped(r, e) == [r EXCEPT !.pc = "raised", !.exc = "RuntimeError"]

\* the call the thread is in ends with the exception e
Raise(r, e) == [r EXCEPT !.pc = "raised", !.exc = e]

\* get, line 42: if key not in self.cache_map: return None
GetCheck(t) ==
    /\ th[t].pc = "get_check"
    /\ th' = [th EXCEPT ![t] = IF th[t].key \notin Keys(cache_map)
                               THEN AfterGet(@, NoneObj)
                               ELSE [@ EXCEPT !.pc = "get_pop"]]
    /\ UNCHANGED <<capacity, cache_map, uses, first, batch, pcall, bproc, fn, ee>>

\* a get that reads the value and leaves the entry where it is
GetPop_KeepPlace(t) ==
    /\ th[t].pc = "get_pop"
    /\ th[t].key \in Keys(cache_map)
    /\ th' = [th EXCEPT ![t] = [@ EXCEPT !.pc = "get_put", !.val = ValueAt(cache_map, th[t].key)]]
    /\ UNCHANGED <<capacity, cache_map, uses, first, batch, pcall, bproc, fn, ee>>

\* get, line 44: value = self.cache_map.pop(key)   (KeyError when the key is gone)
GetPop(t) ==
    /\ th[t].pc = "get_pop"
    /\ IF th[t].key \in Keys(cache_map)
       THEN /\ cache_map' = Remove(cache_map, th[t].key)
            /\ th' = [th EXCEPT ![t] = [@ EXCEPT !.pc = "get_put",
                                                 !.val = ValueAt(cache_map, th[t].key)]]
       ELSE /\ th' = [th EXCEPT ![t] = Raise(@, "KeyError")]
            /\ UNCHANGED cache_map
    /\ UNCHANGED <<capacity, uses, first, batch, pcall, bproc, fn, ee>>

\* a get that does not put the entry back
GetPut_Drop(t) ==
    /\ th[t].pc = "get_put"
    /\ th' = [th EXCEPT ![t] = AfterGet(@, th[t].val)]
    /\ UNCHANGED <<capacity, cache_map, uses, first, batch, pcall, bproc, fn, ee>>

\* get, lines 45-46: self.cache_map[key] = value; return value
GetPut(t) ==
    /\ th[t].pc = "get_put"
    /\ cache_map' = PutItem(cache_map, th[t].key, th[t].val)
    /\ uses' = Touch(uses, th[t].key)
    /\ th' = [th EXCEPT ![t] = AfterGet(@, th[t].val)]
    /\ UNCHANGED <<capacity, first, batch, pcall, bproc, fn, ee>>

\* a set that takes every key for a new one
SetCheck_AlwaysAbsent(t) ==
    /\ th[t].pc = "set_check"
    /\ th' = [th EXCEPT ![t] = [@ EXCEPT !.pc = "set_len"]]
    /\ UNCHANGED <<capacity, cache_map, uses, first, batch, pcall, bproc, fn, ee>>

\* set, line 56: if key in self.cache_map
SetCheck(t) ==
    /\ th[t].pc = "set_check"
    /\ th' = [th EXCEPT ![t] = [@ EXCEPT !.pc = IF th[t].key \in Keys(cache_map)
                                                THEN "set_pop" ELSE "set_len"]]
    /\ UNCHANGED <<capacity, cache_map, uses, first, batch, pcall, bproc, fn, ee>>

\* a set that never finds the cache full
SetLen_NeverFull(t) ==
    /\ th[t].pc = "set_len"
    /\ th' = [th EXCEPT ![t] = [@ EXCEPT !.pc = "set_put"]]
    /\ UNCHANGED <<capacity, cache_map, uses, first, batch, pcall, bproc, fn, ee>>

\* set, line 58: elif len(self.cache_map) >= self.capacity
SetLen(t) ==
    /\ th[t].pc = "set_len"
    /\ th' = [th EXCEPT ![t] = [@ EXCEPT !.pc = IF Len(cache_map) >= capacity
                                                THEN "set_evict" ELSE "set_put"]]
    /\ UNCHANGED <<capacity, cache_map, uses, first, batch, pcall, bproc, fn, ee>>

\* set, line 57: self.cache_map.pop(key)   (KeyError when the key is gone), or
\* set, line 59: self.cache_map.popitem(last=False)   (KeyError on an empty dict)
SetRemove(t) ==
    /\ th[t].pc \in {"set_pop", "set_evict"}
    /\ IF th[t].pc = "set_pop"
       THEN IF th[t].key \in Keys(cache_map)
            THEN /\ cache_map' = Remove(cache_map, th[t].key)
                 /\ th' = [th EXCEPT ![t] = [@ EXCEPT !.pc = "set_put"]]
            ELSE /\ th' = [th EXCEPT ![t] = Raise(@, "KeyError")]
                 /\ UNCHANGED cache_map
       ELSE IF cache_map # << >>
            THEN /\ cache_map' = Tail(cache_map)
                 /\ th' = [th EXCEPT ![t] = [@ EXCEPT !.pc = "set_put"]]
            ELSE /\ th' = [th EXCEPT ![t] = Raise(@, "KeyError")]
                 /\ UNCHANGED cache_map
    /\ UNCHANGED <<capacity, uses, first, batch, pcall, bproc, fn, ee>>

\* set, line 60: self.cache_map[key] = value
SetPut(t) ==
    /\ th[t].pc = "set_put"
    /\ cache_map' = PutItem(cache_map, th[t].key, th[t].val)
    /\ uses' = Touch(uses, th[t].key)
    /\ th' = [th EXCEPT ![t] = AfterSet(@)]
    /\ UNCHANGED <<capacity, first, batch, pcall, bproc, fn, ee>>

CacheStep(t) ==
    \/ GetCheck(t) \/ GetPop(t) \/ GetPut(t)
    \/ SetCheck(t) \/ SetLen(t) \/ SetRemove(t) \/ SetPut(t)

(* ----------------------- TaskExtractor.extract_task -------------------- *)
\* an extraction that looks its key up whatever use_cache says
EnterExtract_AlwaysLookup(text, format_type, use_cache, oid) ==
    [IdleThread EXCEPT !.cont = "et", !.op = "extract_task", !.text = text,
                       !.fmt = format_type, !.use_cache = use_cache, !.oid = oid,
                       !.key = CacheKey(format_type, text),
                       !.pc = "get_check"]

\* lines 175-180: the key is built and, with use_cache, looked up
EnterExtract(text, format_type, use_cache, oid) ==
    [IdleThread EXCEPT !.cont = "et", !.op = "extract_task", !.text = text,
                       !.fmt = format_type, !.use_cache = use_cache, !.oid = oid,
                       !.key = CacheKey(format_type, text),
                       !.pc = IF use_cache THEN "get_check" ELSE "et_classify"]

\* an extraction that runs the recognizer before the classifier
ET_Classify_RecognizerFirst(t) ==
    /\ th[t].pc = "et_classify"
    /\ \E fails \in BOOLEAN :
         LET cleaned == clean_text(th[t].text)
             r == [th[t] EXCEPT !.called = @ \o <<"clean_text", "extract_entities", "classify">>]
         IN  th' = [th EXCEPT ![t] =
                      IF ClassifyRaises(cleaned) THEN Raise(r, "ValueError")
                      ELSE IF fails THEN Raise(r, "ModelInferenceError")
                      ELSE [r EXCEPT !.pc = "et_ner",
                                     !.cls = classify(cleaned, TaskConfidence)]]
    /\ UNCHANGED <<capacity, cache_map, uses, first, batch, pcall, bproc, fn, ee>>

\* lines 182-197: clean_text, then intent_classifier.classify (which may raise)
ET_Classify(t) ==
    /\ th[t].pc = "et_classify"
    /\ \E fails \in BOOLEAN :
         LET cleaned == clean_text(th[t].text)
             r == [th[t] EXCEPT !.called = @ \o <<"clean_text", "classify">>]
         IN  th' = [th EXCEPT ![t] =
                      IF ClassifyRaises(cleaned) THEN Raise(r, "ValueError")
                      ELSE IF fails THEN Raise(r, "ModelInferenceError")
                      ELSE [r EXCEPT !.pc = "et_ner",
                                     !.cls = classify(cleaned, TaskConfidence)]]
    /\ UNCHANGED <<capacity, cache_map, uses, first, batch, pcall, bproc, fn, ee>>

\* lines 199-270: ner_model.extract_entities (which may raise), fusion, field
\* mapping, validation; lines 271-272 go on to cache.set with use_cache
ET_Ner(t) ==
    /\ th[t].pc = "et_ner"
    /\ \E fails \in BOOLEAN :
         LET cleaned == clean_text(th[t].text)
             r == [th[t] EXCEPT !.called = @ \o <<"extract_entities">>]
             result_data == BuildResult(th[t].cls, extract_entities(cleaned, TaskConfidence),
                                        th[t].oid)
         IN  th' = [th EXCEPT ![t] =
                      IF fails THEN Raise(r, "ModelInferenceError")
                      ELSE IF th[t].use_cache
                           THEN [r EXCEPT !.pc = "set_check", !.val = result_data]
                           ELSE [r EXCEPT !.pc = "ret", !.out = result_data]]
    /\ UNCHANGED <<capacity, cache_map, uses, first, batch, pcall, bproc, fn, ee>>

ExtractStep(t) == ET_Classify(t) \/ ET_Ner(t) \/ CacheStep(t)

(* ------------------ a caller using the cache directly ------------------ *)
DirectKeys == {CacheKey(<<"email">>, TxtA), CacheKey(<<"email">>, TxtB),
               CacheKey(<<"email">>, TxtC), CacheKey(<<"chat">>, TxtA)}
DirectValues == {[kind |-> "value", oid |-> 0, tag |-> "v1"],
                 [kind |-> "value", oid |-> 0, tag |-> "v2"]}

\* `before` remembers the cache contents at the time of the call, `last_set` the
\* value each key was last set to by this caller
CallGet(k) ==
    /\ th[Main].pc = "idle"
    /\ th' = [th EXCEPT ![Main] = [IdleThread EXCEPT !.cont = "direct", !.op = "get", !.key = k,
                                                     !.pc = "get_check", !.before = cache_map,
                                                     !.last_set = th[Main].last_set]]
    /\ UNCHANGED <<capacity, cache_map, uses, first, batch, pcall, bproc, fn, ee>>

CallSet(k, v) ==
    /\ th[Main].pc = "idle"
    /\ th' = [th EXCEPT ![Main] = [IdleThread EXCEPT !.cont = "direct", !.op = "set", !.key = k,
                                                     !.val = v, !.pc = "set_check",
                                                     !.before = cache_map,
                                                     !.last_set = th[Main].last_set]]
    /\ UNCHANGED <<capacity, cache_map, uses, first, batch, pcall, bproc, fn, ee>>

OpReturn ==
    /\ th[Main].pc \in {"ret", "raised"}
    /\ th[Main].cont = "direct"
    /\ th' = [th EXCEPT ![Main] = [IdleThread EXCEPT !.last_set = th[Main].last_set]]
    /\ UNCHANGED <<capacity, cache_map, uses, first, batch, pcall, bproc, fn, ee>>

(* ---------------- a caller of extract_task, one call at a time --------- *)
OidsIn(m) == {m[i].value.oid : i \in 1..Len(m)}
\* a new object: an identity no cached object has
FreshOid == CHOOSE n \in 1..(Len(cache_map) + 1) :
                /\ n \notin OidsIn(cache_map)
                /\ \A k \in 1..(n - 1) : k \in OidsIn(cache_map)

SeqCall(text, format_type, use_cache) ==
    /\ th[Main].pc = "idle"
    /\ batch.pc = "idle" /\ pcall.pc = "idle"
    /\ th' = [th EXCEPT ![Main] = [EnterExtract(text, format_type, use_cache, FreshOid)
                                       EXCEPT !.before = cache_map]]
    /\ UNCHANGED <<capacity, cache_map, uses, first, batch, pcall, bproc, fn, ee>>

\* the history may keep this call as the earlier one later calls are compared with
Remember ==
    \/ first' = first
    \/ /\ first = NoneObj /\ th[Main].pc = "ret" /\ th[Main].use_cache
       /\ first' = [text |-> th[Main].text, fmt |-> th[Main].fmt,
                    out |-> Content(th[Main].out)]

\* the call returns (line 180 or 285) or raises
SeqReturn ==
    /\ th[Main].pc \in {"ret", "raised"}
    /\ th[Main].cont = "et"
    /\ batch.pc = "idle" /\ pcall.pc = "idle"
    /\ Remember
    /\ th' = [th EXCEPT ![Main] = IdleThread]
    /\ UNCHANGED <<capacity, cache_map, uses, batch, pcall, bproc, fn, ee>>

\* the caller changes the result object it was handed (a dict is mutable); every
\* reference to that object sees the change
Tamper(r) == [r EXCEPT !.valid = FALSE, !.task_info.title = "tampered"]

SeqReturnAndMutate ==
    /\ th[Main].pc = "ret"
    /\ th[Main].cont = "et"
    /\ batch.pc = "idle" /\ pcall.pc = "idle"
    /\ cache_map' = [i \in 1..Len(cache_map) |->
                        IF cache_map[i].value.oid = th[Main].out.oid
                        THEN [cache_map[i] EXCEPT !.value = Tamper(@)]
                        ELSE cache_map[i]]
    /\ th' = [th EXCEPT ![Main] = IdleThread]
    /\ UNCHANGED <<capacity, uses, first, batch, pcall, bproc, fn, ee>>

(* ------------------- TaskExtractor.batch_extract_tasks ----------------- *)
BatchTexts == {TxtA, TxtB, TxtBlank}

Min(a, b) == IF a < b THEN a ELSE b

\* chunker, lines 330-332: chunk c (from 1) starts at (c-1)*size and holds at most size items
NumChunks(n, size) == (n + size - 1) \div size
\* a chunker whose later chunks start one item early
ChunkStart_Overlap(c, size) == (c - 1) * size - (IF c > 1 THEN 1 ELSE 0)
ChunkStart(c, size) == (c - 1) * size
ChunkLen(c, n, size) == Min(size, n - ChunkStart(c, size))

IdleBatch(workers) == [pc |-> "idle", max_workers |-> workers]

ChunkIds == 1..NumChunks(Len(batch.texts), batch.batch_size)
Over(c) == batch.chunks[c].state \in {"done", "failed"}

\* lines 315-354: the arguments are validated, results pre-sized, every chunk submitted
BatchCall(texts, batch_size, format_type, use_cache) ==
    /\ batch_size > 0
    /\ batch' = [pc |-> "collecting", max_workers |-> batch.max_workers, texts |-> texts,
                 batch_size |-> batch_size, fmt |-> format_type, use_cache |-> use_cache,
                 chunks |-> [c \in 1..NumChunks(Len(texts), batch_size) |->
                                [state |-> "queued", i |-> 0, chunk_results |-> << >>]],
                 collected |-> {}, partial_results |-> << >>,
                 results |-> [i \in 1..Len(texts) |-> NoneObj], exc |-> None]
    /\ UNCHANGED <<capacity, cache_map, th, uses, first, pcall, bproc, fn, ee>>

\* batch_worker, lines 343-345: the chunk's item number i (from 0) is handed to extract_task
StartItem(c, i) ==
    LET idx == ChunkStart(c, batch.batch_size) + i
    IN  EnterExtract(batch.texts[idx + 1], batch.fmt, batch.use_cache, idx + 1)

\* a free worker of the pool takes the oldest queued chunk
WorkerStart(c) ==
    /\ batch.pc \in {"collecting", "exiting"}
    /\ c \in ChunkIds
    /\ batch.chunks[c].state = "queued"
    /\ \A d \in 1..(c - 1) : batch.chunks[d].state # "queued"
    /\ Cardinality({d \in ChunkIds : batch.chunks[d].state = "running"}) < batch.max_workers
    /\ batch' = [batch EXCEPT !.chunks[c].state = "running"]
    /\ th' = [th EXCEPT ![c] = StartItem(c, 0)]
    /\ UNCHANGED <<capacity, cache_map, uses, first, pcall, bproc, fn, ee>>

\* batch_worker, lines 346-347: the result is appended; the next item, or the chunk returns
WorkerItemDone(c) ==
    /\ c \in 1..MaxLen /\ batch.pc \in {"collecting", "exiting"}
    /\ th[c].pc = "ret"
    /\ LET i == batch.chunks[c].i
           idx == ChunkStart(c, batch.batch_size) + i
           out == Append(batch.chunks[c].chunk_results, [idx |-> idx, res |-> th[c].out])
           more == i + 1 < ChunkLen(c, Len(batch.texts), batch.batch_size)
       IN  /\ batch' = [batch EXCEPT !.chunks[c] =
                           [state |-> IF more THEN "running" ELSE "done", i |-> i + 1,
                            chunk_results |-> out]]
           /\ th' = [th EXCEPT ![c] = IF more THEN StartItem(c, i + 1) ELSE IdleThread]
    /\ UNCHANGED <<capacity, cache_map, uses, first, pcall, bproc, fn, ee>>

\* batch_worker, line 345: extract_task raised; nothing catches it, the chunk's future fails
WorkerItemRaised(c) ==
    /\ c \in 1..MaxLen /\ batch.pc \in {"collecting", "exiting"}
    /\ th[c].pc = "raised"
    /\ batch' = [batch EXCEPT !.chunks[c].state = "failed", !.exc = th[c].exc]
    /\ th' = [th EXCEPT ![c] = IdleThread]
    /\ UNCHANGED <<capacity, cache_map, uses, first, pcall, bproc, fn, ee>>

\* lines 356-358: as_completed hands over a finished future; result() re-raises what
\* its chunk raised, and the with block is left
Collect(c) ==
    /\ batch.pc = "collecting"
    /\ c \in ChunkIds \ batch.collected
    /\ Over(c)
    /\ batch' = IF batch.chunks[c].state = "done"
                THEN [batch EXCEPT !.collected = @ \cup {c},
                                   !.partial_results = @ \o batch.chunks[c].chunk_results]
                ELSE [batch EXCEPT !.pc = "exiting"]
    /\ UNCHANGED <<capacity, cache_map, th, uses, first, pcall, bproc, fn, ee>>

\* results filled in the order the chunks were collected
Assemble_InArrivalOrder(results, partial_results) ==
    [i \in 1..Len(results) |->
        IF i <= Len(partial_results) THEN partial_results[i].res ELSE results[i]]

\* lines 361-362: for idx, data in partial_results: results[idx] = data
Assemble(results, partial_results) ==
    [i \in 1..Len(results) |->
        IF \E j \in 1..Len(partial_results) : partial_results[j].idx = i - 1
        THEN LET j == CHOOSE k \in 1..Len(partial_results) :
                        /\ partial_results[k].idx = i - 1
                        /\ \A m \in (k + 1)..Len(partial_results) : partial_results[m].idx # i - 1
             IN  partial_results[j].res
        ELSE results[i]]

\* lines 360-370: every future was collected; the results are assembled and returned
BatchReturn ==
    /\ batch.pc = "collecting"
    /\ batch.collected = ChunkIds
    /\ batch' = [batch EXCEPT !.pc = "returned",
                              !.results = Assemble(batch.results, batch.partial_results)]
    /\ UNCHANGED <<capacity, cache_map, th, uses, first, pcall, bproc, fn, ee>>

\* line 352: leaving the with block waits for every submitted chunk, then the
\* exception leaves batch_extract_tasks
BatchRaise ==
    /\ batch.pc = "exiting"
    /\ \A c \in ChunkIds : Over(c)
    /\ batch' = [batch EXCEPT !.pc = "raised"]
    /\ UNCHANGED <<capacity, cache_map, th, uses, first, pcall, bproc, fn, ee>>

RECURSIVE SeqsUpTo(_, _)
SeqsUpTo(S, n) ==
    IF n = 0 THEN {<< >>}
    ELSE LET shorter == SeqsUpTo(S, n - 1)
         IN  shorter \cup {Append(s, x) : s \in {q \in shorter : Len(q) = n - 1}, x \in S}

\* the caller of one batch: any list of up to MaxLen texts, any positive batch_size
BatchCaller ==
    /\ batch.pc = "idle" /\ pcall.pc = "idle" /\ th[Main].pc = "idle"
    /\ \E texts \in SeqsUpTo(BatchTexts, MaxLen), size \in 1..MaxLen, uc \in BOOLEAN :
          BatchCall(texts, size, <<"email">>, uc)

(* ------------------- EntityExtractor.extract_task_entities ------------- *)
\* config.get("entity_extractor_cache_ttl", 300), in seconds
DefaultTTL == 300

\* the extraction_config process_communication passes
EEConfig == [confidence_threshold |-> EntityConfidence, lowercase |-> FALSE]

\* EntityExtractor.__init__: an empty cache; the clock is the one time.time() reads
NewExtractor(cache_ttl) == [cache |-> << >>, cache_ttl |-> cache_ttl, now |-> 0]

\* f"{channel_type}::{hash(text)}::{extraction_config}": the three parts of the
\* key, the hash standing for its text
EECacheKey(text, channel_type, extraction_config) == <<channel_type, text, extraction_config>>

prune_cache_KeepAll(e) == e

\* _prune_cache: every entry stored more than cache_ttl before now is deleted
prune_cache(e) ==
    [e EXCEPT !.cache = [k \in {j \in DOMAIN e.cache :
                                    ~ (e.now - e.cache[j].timestamp > e.cache_ttl)}
                            |-> e.cache[k]]]

NerFailed_Stored(e, key) ==
    [ee |-> [e EXCEPT !.cache = (key :> [timestamp |-> e.now, data |-> << >>]) @@ @],
     outcome |-> "ner_failed", entities |-> << >>, exc |-> None]

\* the except branch around ner_model.extract_entities: the error is logged and
\* an empty list returned, the cache is not written
NerFailed(e, key) == [ee |-> e, outcome |-> "ner_failed", entities |-> << >>, exc |-> None]

\* extract_task_entities on extractor e. time.time() is read at the prune, at
\* the lookup (elapsed1 later) and at the store (elapsed2 later still);
\* ner_fails says whether ner_model.extract_entities raises if it is called
extract_task_entities(e, text, channel_type, extraction_config, elapsed1, elapsed2, ner_fails) ==
    LET cache_key == EECacheKey(text, channel_type, extraction_config)
        pruned == prune_cache(e)
        looking == [pruned EXCEPT !.now = @ + elapsed1]
        storing == [looking EXCEPT !.now = @ + elapsed2]
        hit == /\ cache_key \in DOMAIN looking.cache
               /\ looking.now - looking.cache[cache_key].timestamp <= looking.cache_ttl
        local_conf_threshold == extraction_config.confidence_threshold
        raw_result == extract_entities(clean_text(text), local_conf_threshold)
        processed_entities == SelectSeq(raw_result,
                                        LAMBDA ent : ent.confidence >= local_conf_threshold)
        times == [started |-> e.now, looked_at |-> looking.now,
                  served |-> IF hit THEN looking.cache[cache_key].timestamp ELSE -1]
    IN  times @@
        (IF hit
         THEN [ee |-> looking, outcome |-> "hit",
               entities |-> looking.cache[cache_key].data, exc |-> None]
         ELSE IF Strip(text) = << >>
         THEN [ee |-> looking, outcome |-> "blank", entities |-> << >>, exc |-> None]
         ELSE IF extraction_config = NoneObj
         THEN [ee |-> looking, outcome |-> "raised", entities |-> << >>, exc |-> "ValueError"]
         ELSE IF ner_fails
         THEN NerFailed(storing, cache_key)
         ELSE [ee |-> [storing EXCEPT !.cache =
                           (cache_key :> [timestamp |-> storing.now,
                                          data |-> processed_entities]) @@ @],
               outcome |-> "stored", entities |-> processed_entities, exc |-> None])

(* --------------- CommunicationProcessor.process_communication ---------- *)
\* retry_config["backoff_factor"], in thousandths of a second
BackoffFactors == {0, 100}
Channels == {<<"email">>, <<WS>>, << >>}
PCTexts == {TxtA, TxtB, TxtBlank, TxtEmpty}

IdleCall == [pc |-> "idle"]

\* str(e): the message of the exception, without its type
StrOfError(e) ==
    CASE e = "AttributeError" -> <<"'NoneType' object has no attribute 'handle'">>
      [] e = "ValueError" -> <<"Text is too short to be processed by the BERT classifier.">>
      [] e = "ModelInferenceError" -> <<"inference failed">>
      [] e = "KeyError" -> <<"'dictionary is empty'">>
      [] OTHER -> <<"Unknown error">>

\* lines 292-296: the error raised when the loop ends without a return
AggregatedError(max_attempts, last_error) ==
    [type |-> "RuntimeError",
     msg |-> <<"Failed to process communication after ", max_attempts, " attempts: ">>
             \o StrOfError(last_error)]

\* processing_options["text_processor_options"] as the caller may submit it: the
\* key is absent (NoneObj), or it holds a map without or with a channel_type
TPOptions == {NoneObj, [lowercase |-> TRUE],
              [lowercase |-> TRUE, channel_type |-> <<"chat">>]}

\* lines 212-214: text_proc_options = processing_options.get("text_processor_options", {});
\* text_proc_options["channel_type"] = channel_type. The map written to is the
\* caller's own when the key is there, a new one otherwise; this is the caller's
\* map afterwards
SetChannel(text_processor_options, channel_type) ==
    IF text_processor_options = NoneObj THEN NoneObj
    ELSE [k \in DOMAIN text_processor_options \cup {"channel_type"} |->
             IF k = "channel_type" THEN channel_type ELSE text_processor_options[k]]

\* history: the arguments as they were when the call was made
Submitted(text, channel_type, use_task_cache, text_processor_options) ==
    [text |-> text, channel_type |-> channel_type, use_task_cache |-> use_task_cache,
     text_processor_options |-> text_processor_options]

\* a call that starts its attempts without looking at its arguments
PCCall_NoValidation(text, channel_type, use_task_cache, text_processor_options, max_attempts, backoff_factor, in_loop) ==
    pcall' = [pc |-> "loop", text |-> text, channel_type |-> channel_type,
              use_task_cache |-> use_task_cache,
              text_processor_options |-> SetChannel(text_processor_options, channel_type),
              submitted |-> Submitted(text, channel_type, use_task_cache,
                                      text_processor_options),
              max_attempts |-> max_attempts,
              backoff_factor |-> backoff_factor, in_loop |-> in_loop,
              attempt |-> 0, last_error |-> None, waits |-> << >>, tries |-> << >>,
              processed_text_output |-> NoneObj, entity_result |-> NoneObj, entity_outcome |-> None,
              bundle |-> NoneObj, exc |-> NoneObj]

\* lines 194-221: validation, then the channel is written into the text
\* processor's options, the retry settings are read and the loop is entered
PCCall(text, channel_type, use_task_cache, text_processor_options, max_attempts, backoff_factor, in_loop) ==
    LET invalid == Strip(text) = << >> \/ Strip(channel_type) = << >>
    IN  pcall' = [pc |-> IF invalid THEN "raised" ELSE "loop",
                  text |-> text, channel_type |-> channel_type,
                  use_task_cache |-> use_task_cache,
                  text_processor_options |->
                      IF invalid THEN text_processor_options
                      ELSE SetChannel(text_processor_options, channel_type),
                  submitted |-> Submitted(text, channel_type, use_task_cache,
                                          text_processor_options),
                  max_attempts |-> max_attempts,
                  backoff_factor |-> backoff_factor, in_loop |-> in_loop,
                  attempt |-> 0, last_error |-> None, waits |-> << >>, tries |-> << >>,
                  processed_text_output |-> NoneObj, entity_result |-> NoneObj, entity_outcome |-> None,
                  bundle |-> NoneObj,
                  exc |-> IF invalid THEN [type |-> "ValueError", msg |-> << >>] ELSE NoneObj]

\* a direct, synchronous caller: no event loop is running
PCCaller ==
    /\ pcall.pc = "idle" /\ batch.pc = "idle" /\ th[Main].pc = "idle"
    /\ \E text \in PCTexts, channel_type \in Channels, use_task_cache \in BOOLEAN,
          text_processor_options \in TPOptions,
          max_attempts \in 0..MaxAttempts, backoff_factor \in BackoffFactors :
          PCCall(text, channel_type, use_task_cache, text_processor_options,
                 max_attempts, backoff_factor, FALSE)
    /\ UNCHANGED <<capacity, cache_map, th, uses, first, batch, bproc, fn, ee>>

\* lines 223-224 and 292-296: while attempt < max_attempts: attempt += 1; after
\* the loop the aggregated error is raised
PCLoop ==
    /\ pcall.pc = "loop"
    /\ pcall' = IF pcall.attempt < pcall.max_attempts
                THEN [pcall EXCEPT !.attempt = @ + 1, !.pc = "process_text"]
                ELSE [pcall EXCEPT !.pc = "raised",
                                   !.exc = AggregatedError(pcall.max_attempts, pcall.last_error)]
    /\ UNCHANGED <<capacity, cache_map, th, uses, first, batch, bproc, fn, ee>>

\* a handler that keeps the first error it saw
PCExcept_FirstError(p, e) ==
    LET q == [p EXCEPT !.last_error = IF @ = None THEN e ELSE @, !.tries = Append(@, e)]
    IN  IF p.attempt < p.max_attempts /\ p.backoff_factor > 0
        THEN [q EXCEPT !.pc = "loop", !.waits = Append(@, p.backoff_factor * p.attempt)]
        ELSE [q EXCEPT !.pc = "loop"]

\* a handler that waits after every failed attempt, the last one included
PCExcept_WaitAlways(p, e) ==
    LET q == [p EXCEPT !.last_error = e, !.tries = Append(@, e)]
    IN  IF p.backoff_factor > 0
        THEN [q EXCEPT !.pc = "loop", !.waits = Append(@, p.backoff_factor * p.attempt)]
        ELSE [q EXCEPT !.pc = "loop"]

\* lines 280-289: except Exception as e: last_error = e; the backoff wait, which
\* asyncio.run refuses inside a running event loop
PCExcept(p, e) ==
    LET q == [p EXCEPT !.last_error = e, !.tries = Append(@, e)]
    IN  IF p.attempt < p.max_attempts /\ p.backoff_factor > 0
        THEN IF p.in_loop
             THEN [q EXCEPT !.pc = "raised",
                            !.exc = [type |-> "RuntimeError",
                                     msg |-> <<"asyncio.run() cannot be called from a running event loop">>]]
             ELSE [q EXCEPT !.pc = "loop", !.waits = Append(@, p.backoff_factor * p.attempt)]
        ELSE [q EXCEPT !.pc = "loop"]

\* lines 227-230: text_processor.process_text, whose failure handling calls the
\* error handler the processor was built without
PCProcessText ==
    /\ pcall.pc = "process_text"
    /\ \E fails \in BOOLEAN :
         pcall' = IF fails THEN PCExcept(pcall, "AttributeError")
                  ELSE [pcall EXCEPT !.pc = "entities",
                                     !.processed_text_output =
                                         [cleaned_text |-> clean_text(pcall.text),
                                          made_at |-> pcall.attempt]]
    /\ UNCHANGED <<capacity, cache_map, th, uses, first, batch, bproc, fn, ee>>

\* lines 233-251: extract_task_entities on the processor's extractor, during which
\* the clock does not move, then extract_task is entered
PCEntities ==
    /\ pcall.pc = "entities"
    /\ \E ner_fails \in BOOLEAN :
         LET r == extract_task_entities(ee, pcall.text, pcall.channel_type, EEConfig,
                                        0, 0, ner_fails)
         IN  /\ ee' = r.ee
             /\ pcall' = [pcall EXCEPT !.pc = "extract_task",
                                       !.entity_outcome = r.outcome,
                                       !.entity_result = [entities |-> r.entities,
                                                          made_at |-> pcall.attempt]]
    /\ th' = [th EXCEPT ![Main] = [EnterExtract(pcall.text, pcall.channel_type,
                                                pcall.use_task_cache, FreshOid)
                                       EXCEPT !.before = cache_map]]
    /\ UNCHANGED <<capacity, cache_map, uses, first, batch, bproc, fn>>

\* the attempt's work succeeded but the loop goes on
PCSucceeded_NoReturn(p, extract_result) ==
    [p EXCEPT !.pc = "loop", !.tries = Append(@, "ok"),
              !.bundle = [processed_text_output |-> p.processed_text_output,
                          entity_result |-> p.entity_result,
                          task_extraction |-> extract_result]]

\* max(entity_conf_threshold, task_conf_threshold), lines 254-255
WarnThreshold == IF EntityConfidence > TaskConfidence THEN EntityConfidence ELSE TaskConfidence

\* a low-confidence result is thrown away and another attempt made while any is left
PCSucceeded_RetryLowConfidence(p, extract_result) ==
    IF RatLess(extract_result.final_confidence, Rat(WarnThreshold, 1)) /\ p.attempt < p.max_attempts
    THEN [p EXCEPT !.pc = "loop", !.tries = Append(@, "ok")]
    ELSE [p EXCEPT !.pc = "returned", !.tries = Append(@, "ok"),
                   !.bundle = [processed_text_output |-> p.processed_text_output,
                               entity_result |-> p.entity_result,
                               task_extraction |-> extract_result]]

\* lines 253-278: the low-confidence warning, then the bundle is returned
PCSucceeded(p, extract_result) ==
    [p EXCEPT !.pc = "returned", !.tries = Append(@, "ok"),
              !.bundle = [processed_text_output |-> p.processed_text_output,
                          entity_result |-> p.entity_result,
                          task_extraction |-> extract_result]]

\* lines 247-251: extract_task runs on the caller's thread
PCExtractStep ==
    /\ pcall.pc = "extract_task"
    /\ ExtractStep(Main)

\* lines 247-251: extract_task returned or raised
PCExtractOver ==
    /\ pcall.pc = "extract_task"
    /\ th[Main].pc \in {"ret", "raised"}
    /\ pcall' = IF th[Main].pc = "ret" THEN PCSucceeded(pcall, th[Main].out)
                ELSE PCExcept(pcall, th[Main].exc)
    /\ th' = [th EXCEPT ![Main] = IdleThread]
    /\ UNCHANGED <<capacity, cache_map, uses, first, batch, bproc, fn, ee>>

\* the call is over; the caller may call again
PCOver ==
    /\ pcall.pc \in {"returned", "raised"}
    /\ pcall' = IdleCall
    /\ UNCHANGED <<capacity, cache_map, th, uses, first, batch, bproc, fn, ee>>

(* ------------------ CommunicationProcessor.batch_process --------------- *)
BPTexts == {TxtA, TxtBlank}

Max(a, b) == IF a > b THEN a ELSE b

\* results[item["index"]] = item["result"] done by position in the chunk
AssignChunk_ByPosition(results, chunk_results) ==
    [i \in 1..Len(results) |->
        IF i <= Len(chunk_results) THEN chunk_results[i].result ELSE results[i]]

\* lines 401-402: for item in chunk_results: results[item["index"]] = item["result"]
AssignChunk(results, chunk_results) ==
    [i \in 1..Len(results) |->
        IF \E j \in 1..Len(chunk_results) : chunk_results[j].index = i - 1
        THEN LET j == CHOOSE k \in 1..Len(chunk_results) : chunk_results[k].index = i - 1
             IN  chunk_results[j].result
        ELSE results[i]]

\* lines 329-354: validation, the effective batch size, the pre-sized results
BPCall(texts, channel_type, batch_size, use_task_cache, text_processor_options, max_attempts, backoff_factor) ==
    LET invalid == Strip(channel_type) = << >> \/ batch_size <= 0
    IN  bproc' = [pc |-> IF invalid THEN "raised" ELSE "running",
                  texts |-> texts, channel_type |-> channel_type, batch_size |-> batch_size,
                  use_task_cache |-> use_task_cache,
                  text_processor_options |-> text_processor_options,
                  submitted |-> Submitted(texts, channel_type, use_task_cache,
                                          text_processor_options),
                  max_attempts |-> max_attempts,
                  backoff_factor |-> backoff_factor,
                  effective_batch_size |-> Min(batch_size, Max(Len(texts), 1)),
                  i |-> 0, chunk_results |-> << >>, chunks |-> << >>, log |-> << >>,
                  results |-> [k \in 1..Len(texts) |-> NoneObj],
                  exc |-> IF invalid THEN [type |-> "ValueError", msg |-> << >>] ELSE NoneObj]

\* a synchronous caller of batch_process on a processor with some retry_config
BPCaller ==
    /\ bproc.pc = "idle" /\ pcall.pc = "idle" /\ batch.pc = "idle" /\ th[Main].pc = "idle"
    /\ \E texts \in SeqsUpTo(BPTexts, MaxLen), channel_type \in {<<"email">>, <<WS>>},
          batch_size \in 0..MaxLen, use_task_cache \in BOOLEAN,
          text_processor_options \in {[lowercase |-> TRUE]},
          max_attempts \in 0..MaxAttempts, backoff_factor \in BackoffFactors :
          BPCall(texts, channel_type, batch_size, use_task_cache, text_processor_options,
                 max_attempts, backoff_factor)
    /\ UNCHANGED <<capacity, cache_map, th, uses, first, batch, pcall, fn, ee>>

\* lines 362-400: inside asyncio.run the chunk's coroutines run one
\* after the other, none of them awaiting; the next one calls process_communication
BPStartItem ==
    /\ bproc.pc = "running" /\ pcall.pc = "idle"
    /\ bproc.i < Len(bproc.texts)
    /\ PCCall(bproc.texts[bproc.i + 1], bproc.channel_type, bproc.use_task_cache,
              bproc.text_processor_options, bproc.max_attempts, bproc.backoff_factor, TRUE)
    /\ UNCHANGED <<capacity, cache_map, th, uses, first, batch, bproc, fn, ee>>

\* lines 371-372: the item's coroutine executes process_communication
BPItemStep ==
    /\ bproc.pc = "running"
    /\ (PCLoop \/ PCProcessText \/ PCEntities \/ PCExtractStep \/ PCExtractOver)

\* an item whose call raised leaves its slot as it was
ItemResult_Reraise(p) == p.bundle

\* lines 371-376: the bundle, or {"error": str(e)} when process_communication raised
ItemResult(p) == IF p.pc = "returned" THEN p.bundle ELSE [error |-> p.exc.msg]

\* lines 373-376 and 398-402: the item is over; after the last item of a chunk
\* gather returns and the chunk's results are written to their slots
BPItemOver ==
    /\ bproc.pc = "running" /\ pcall.pc \in {"returned", "raised"}
    /\ LET item == [index |-> bproc.i, result |-> ItemResult(pcall)]
           chunk_results == Append(bproc.chunk_results, item)
           last == \/ bproc.i + 1 = Len(bproc.texts)
                   \/ (bproc.i + 1) % bproc.effective_batch_size = 0
       IN  bproc' = [bproc EXCEPT
                       !.i = @ + 1,
                       !.log = Append(@, pcall.pc),
                       !.text_processor_options = pcall.text_processor_options,
                       !.chunk_results = IF last THEN << >> ELSE chunk_results,
                       !.chunks = IF last THEN Append(@, Len(chunk_results)) ELSE @,
                       !.results = IF last THEN AssignChunk(@, chunk_results) ELSE @]
    /\ pcall' = IdleCall
    /\ UNCHANGED <<capacity, cache_map, th, uses, first, batch, fn, ee>>

\* lines 404-416: every chunk was processed; results is returned
BPReturn ==
    /\ bproc.pc = "running" /\ pcall.pc = "idle"
    /\ bproc.i = Len(bproc.texts)
    /\ bproc' = [bproc EXCEPT !.pc = "returned"]
    /\ UNCHANGED <<capacity, cache_map, th, uses, first, batch, pcall, fn, ee>>

(* ------------- validate_task and the fusion step, called alone --------- *)
\* confidences in thousandths, some of them outside [0, 1]
ConfValues == {0 - 200, 0, 599, 600, 1000, 1001}
Thresholds == {0, 600, 1000}
Titles == {None, "fix bug", "<int 42>"}
ScoreValues ==
    {[combined_confidence |-> Rat(c, 1)] : c \in ConfValues}
        \cup {[intent_confidence |-> Rat(500, 1)], [pytype |-> "float"]}
FieldSet == Range(required_fields)
Dropped == {D \in SUBSET FieldSet : Cardinality(D) <= 2}

\* a task dict without the keys in D
TaskData(title, scores, D) ==
    LET full == [title |-> title, description |-> "call back", assignee |-> None,
                 deadline |-> None, priority |-> None, confidence_scores |-> scores]
    IN  [k \in FieldSet \ D |-> full[k]]

\* validate_task(task_data, confidence_threshold) is called and returns
ValidateCall ==
    /\ fn.pc = "idle"
    /\ \E title \in Titles, scores \in ScoreValues, D \in Dropped, threshold \in Thresholds :
         LET task_data == TaskData(title, scores, D)
         IN  fn' = [pc |-> "returned", op |-> "validate_task", task_data |-> task_data,
                    confidence_threshold |-> threshold,
                    out |-> validate_task(task_data, threshold)]
    /\ UNCHANGED <<capacity, cache_map, th, uses, first, batch, pcall, bproc, ee>>

\* what the collaborators may report
IntentReports == {[label |-> l, confidence |-> c] : l \in {None, "TASK_RELEVANT"},
                                                     c \in {0 - 200, 0, 400, 1000, 1400}}
\* ent.get("token", "") is the empty string for an entity reported without a token
EntityLabels == {<<"B", "TITLE">>, <<"B", "ASSIGNEE">>, <<"B", "DEADLINE">>,
                 <<"b", "priority">>, <<"B", "DESCRIPTION">>, <<"O">>}
EntityTokens == {"report", "bob", ""}
EntityReport == {[entity |-> l, token |-> tok, confidence |-> c] :
                    l \in EntityLabels, tok \in EntityTokens, c \in {0, 800, 1400}}

\* lines 207-270 of extract_task on given collaborator outputs
FuseCall ==
    /\ fn.pc = "idle"
    /\ \E classification_result \in IntentReports, entities_list \in SeqsUpTo(EntityReport, 2) :
         fn' = [pc |-> "returned", op |-> "extract_task",
                classification_result |-> classification_result,
                entities_list |-> entities_list,
                out |-> BuildResult(classification_result, entities_list, 0)]
    /\ UNCHANGED <<capacity, cache_map, th, uses, first, batch, pcall, bproc, ee>>

FnReturn ==
    /\ fn.pc = "returned"
    /\ fn' = IdleCall
    /\ UNCHANGED <<capacity, cache_map, th, uses, first, batch, pcall, bproc, ee>>

\* extract_task_entities called on its own, the clock free to move during the call
EETexts == {TxtA, TxtB, TxtBlank}
EEConfigs == {EEConfig, NoneObj}

EECaller ==
    /\ fn.pc = "idle"
    /\ \E text \in EETexts, extraction_config \in EEConfigs, ner_fails \in BOOLEAN,
          elapsed1 \in 0..MaxElapsed, elapsed2 \in 0..MaxElapsed :
         LET r == extract_task_entities(ee, text, <<"email">>, extraction_config,
                                        elapsed1, elapsed2, ner_fails)
         IN  /\ ee.now + elapsed1 + elapsed2 <= MaxTime
             /\ ee' = r.ee
             /\ fn' = [pc |-> "returned", method |-> "extract_task_entities",
                       text |-> text, extraction_config |-> extraction_config,
                       before |-> ee.cache, started |-> r.started,
                       looked_at |-> r.looked_at, served |-> r.served,
                       outcome |-> r.outcome, ret |-> r.entities, exc |-> r.exc]
    /\ UNCHANGED <<capacity, cache_map, th, uses, first, batch, pcall, bproc>>

\* a second goes by
Tick ==
    /\ ee.now < MaxTime
    /\ ee' = [ee EXCEPT !.now = @ + 1]
    /\ UNCHANGED <<capacity, cache_map, th, uses, first, batch, pcall, bproc, fn>>

(* --------------------------- specifications ---------------------------- *)
InitCommon ==
    /\ cache_map = << >>
    /\ th = [t \in Threads |-> IdleThread]
    /\ uses = << >>
    /\ first = NoneObj
    /\ batch \in {IdleBatch(w) : w \in 1..MaxWorkers}
    /\ pcall = IdleCall
    /\ bproc = IdleCall
    /\ fn = IdleCall

Init ==
    /\ capacity \in 0..MaxCapacity
    /\ InitCommon
    /\ ee = NewExtractor(DefaultTTL)

\* get and set called on one _LRUCache, one at a time
NextCache ==
    \/ \E k \in DirectKeys : CallGet(k)
    \/ \E k \in DirectKeys, v \in DirectValues : CallSet(k, v)
    \/ CacheStep(Main)
    \/ OpReturn

SpecCache == Init /\ [][NextCache]_vars

\* texts and format types that hold the separator "::" the key is built with
KeyTexts == {<<"carol">>, <<"re", SEP, "carol">>}
KeyFormats == {<<"email">>, <<"email", SEP, "re">>}

\* extract_task called by one synchronous caller with such arguments
NextKey ==
    \/ \E text \in KeyTexts, f \in KeyFormats, uc \in BOOLEAN : SeqCall(text, f, uc)
    \/ ExtractStep(Main)
    \/ SeqReturn

SpecKey == Init /\ [][NextKey]_vars

\* extract_task called by one synchronous caller
NextSeq ==
    \/ \E text \in Texts, f \in Formats, uc \in BOOLEAN : SeqCall(text, f, uc)
    \/ ExtractStep(Main)
    \/ SeqReturn

SpecSeq == Init /\ [][NextSeq]_vars

\* one call of batch_extract_tasks on a fresh extractor, its chunks on the pool's threads
NextBatch ==
    \/ BatchCaller
    \/ \E c \in 1..MaxLen : WorkerStart(c) \/ ExtractStep(c) \/ WorkerItemDone(c) \/ WorkerItemRaised(c)
                             \/ Collect(c)
    \/ BatchReturn
    \/ BatchRaise

SpecBatch == Init /\ [][NextBatch]_vars

\* direct calls of process_communication, one at a time
NextPC ==
    \/ PCCaller
    \/ PCLoop
    \/ PCProcessText
    \/ PCEntities
    \/ PCExtractStep
    \/ PCExtractOver
    \/ PCOver

SpecPC == Init /\ [][NextPC]_vars

\* one call of batch_process, its items calling process_communication in turn
NextBP ==
    \/ BPCaller
    \/ BPStartItem
    \/ BPItemStep
    \/ BPItemOver
    \/ BPReturn

InitBP == Init /\ batch.max_workers = 1

SpecBP == InitBP /\ [][NextBP]_vars

\* the pure methods on inputs of every shape
NextPure == ValidateCall \/ FuseCall \/ FnReturn

SpecPure == Init /\ [][NextPure]_vars

\* the same caller, free to change the results it was handed
NextAlias == NextSeq \/ SeqReturnAndMutate

SpecAlias == Init /\ [][NextAlias]_vars

\* one EntityExtractor, called one call at a time while time passes
NextEE == EECaller \/ Tick \/ FnReturn

InitEE ==
    /\ capacity = 0
    /\ InitCommon
    /\ batch.max_workers = 1
    /\ ee \in {NewExtractor(cache_ttl) : cache_ttl \in 0..MaxTTL}

SpecEE == InitEE /\ [][NextEE]_vars

(* ------------------------------- claims -------------------------------- *)
Quiet == th[Main].pc = "idle"

\* C3: after any sequence of get and set operations executed one at a time, the
\* cache holds at most `capacity` entries.
C3_CacheWithinCapacity == Len(cache_map) <= capacity

C3_Witness ==
    /\ Quiet /\ capacity = MaxCapacity /\ Len(cache_map) = capacity
    /\ \E k \in Range(uses) : TRUE
    /\ \E k \in DirectKeys : k \notin Keys(cache_map)

\* C4: between operations the cache holds exactly the most recently used keys, at
\* most `capacity` of them, oldest first, a get hit and a set each counting as a
\* use: so the entry a set removes from a full cache is the least recently used one.
C4_HoldsMostRecentlyUsed == Quiet => KeySeq(cache_map) = uses

\* a set of a new key into a full cache has just evicted the oldest entry
C4_Witness ==
    /\ th[Main].pc = "ret" /\ th[Main].op = "set" /\ capacity >= 2
    /\ Len(th[Main].before) = capacity
    /\ th[Main].key \notin Keys(th[Main].before)
    /\ KeySeq(cache_map) = Tail(KeySeq(th[Main].before)) \o <<th[Main].key>>

\* C6: extract_task called with use_cache=true while the fingerprint is cached
\* returns the stored object itself, invokes no collaborator, and leaves the
\* cache with that entry moved to the most recently used place.
C6_HitReturnsStored ==
    \A t \in {Main} :
        (/\ th[t].pc \in {"ret", "raised"} /\ th[t].op = "extract_task"
         /\ th[t].use_cache /\ th[t].key \in Keys(th[t].before))
        => /\ th[t].pc = "ret"
           /\ th[t].out = ValueAt(th[t].before, th[t].key)
           /\ th[t].called = << >>
           /\ cache_map = Append(Remove(th[t].before, th[t].key),
                                 [key |-> th[t].key, value |-> th[t].out])

\* a hit on an entry that was not the most recently used one
C6_Witness ==
    /\ th[Main].pc = "ret" /\ th[Main].op = "extract_task" /\ th[Main].hit
    /\ Len(th[Main].before) >= 2
    /\ th[Main].before[1].key = th[Main].key

\* C7: a call extract_task(t, fmt, use_cache=true) that returns, returns a result
\* with the same content as an earlier such call for the same t and fmt did,
\* whatever calls were made in between.
C7_Idempotent ==
    (/\ th[Main].pc = "ret" /\ th[Main].op = "extract_task" /\ th[Main].use_cache
     /\ first # NoneObj /\ first.text = th[Main].text /\ first.fmt = th[Main].fmt)
    => Content(th[Main].out) = first.out

\* the second call recomputes: the entry of the first call was evicted in between
C7_Witness ==
    /\ th[Main].pc = "ret" /\ th[Main].op = "extract_task" /\ th[Main].use_cache
    /\ first # NoneObj /\ first.text = th[Main].text /\ first.fmt = th[Main].fmt
    /\ ~th[Main].hit /\ th[Main].key \notin Keys(th[Main].before)
    /\ Len(th[Main].before) = capacity /\ capacity >= 1

\* C8: a cache hit returns what extract_task computed for that fingerprint,
\* whatever the callers did to the results they were handed earlier.
C8_CacheStoresCopy ==
    (th[Main].pc = "ret" /\ th[Main].op = "extract_task" /\ th[Main].hit)
    => Content(th[Main].out) = Content(ResultOf(th[Main].text, 0))

\* C1: when batch_extract_tasks returns, it returns len(L) results and result i
\* is the extraction result of L[i], whatever order the chunks completed in.
C1_BatchOrder ==
    batch.pc = "returned"
    => /\ Len(batch.results) = Len(batch.texts)
       /\ \A i \in 1..Len(batch.texts) :
            /\ batch.results[i] # NoneObj
            /\ Content(batch.results[i]) = Content(ResultOf(batch.texts[i], 0))

\* returned although a later chunk was collected before the first one
C1_Witness ==
    /\ batch.pc = "returned"
    /\ Len(batch.partial_results) >= 2
    /\ batch.partial_results[1].idx > 0
    /\ batch.results[1] # batch.results[Len(batch.results)]

\* C2: an exception raised while extracting one item aborts neither its chunk
\* nor the batch: the call returns len(L) results, every slot filled.
C2_FailureIsolation ==
    batch.pc \in {"returned", "raised"}
    => /\ batch.pc = "returned"
       /\ Len(batch.results) = Len(batch.texts)
       /\ \A i \in 1..Len(batch.texts) : batch.results[i] # NoneObj

\* C5: in every state of a concurrent batch with use_cache=true the cache holds
\* at most `capacity` entries.
C5_BoundedUnderConcurrency ==
    (batch.pc # "idle" /\ batch.use_cache) => Len(cache_map) <= capacity

Failures(tries) == {i \in 1..Len(tries) : tries[i] # "ok"}
PCValid == pcall.pc # "idle" /\ Strip(pcall.text) # << >> /\ Strip(pcall.channel_type) # << >>

\* C9: for valid input and max_attempts >= 1, process_communication never makes
\* more than max_attempts attempts, and a call all of whose attempts raised ends
\* after exactly max_attempts attempts by raising one aggregated error whose
\* message carries the message of the last attempt's exception.
C9_BoundedRetries ==
    (PCValid /\ pcall.max_attempts >= 1)
    => /\ pcall.attempt <= pcall.max_attempts
       /\ Len(pcall.tries) <= pcall.attempt
       /\ (pcall.pc \in {"returned", "raised"} /\ Failures(pcall.tries) = 1..Len(pcall.tries))
          => /\ pcall.pc = "raised"
             /\ Len(pcall.tries) = pcall.max_attempts
             /\ pcall.exc = AggregatedError(pcall.max_attempts,
                                            pcall.tries[Len(pcall.tries)])

\* every attempt raised, the last one with another exception than the first
C9_Witness ==
    /\ PCValid /\ pcall.pc = "raised" /\ pcall.max_attempts = MaxAttempts
    /\ Len(pcall.tries) = MaxAttempts
    /\ StrOfError(pcall.tries[1]) # StrOfError(pcall.tries[MaxAttempts])
    /\ pcall.waits # << >>

\* C10: once attempt k succeeds after k-1 raising attempts, the call returns the
\* bundle whose three parts were all produced in attempt k, and attempt k is
\* the last attempt made.
C10_ReturnsFirstSuccess ==
    (PCValid /\ pcall.tries # << >> /\ \E i \in 1..Len(pcall.tries) : pcall.tries[i] = "ok")
    => LET k == Len(pcall.tries)
       IN  /\ pcall.pc = "returned"
           /\ pcall.tries[k] = "ok" /\ Failures(pcall.tries) = 1..(k - 1)
           /\ k <= pcall.max_attempts /\ pcall.attempt = k
           /\ pcall.bundle.processed_text_output.made_at = k
           /\ pcall.bundle.entity_result.made_at = k
           /\ Content(pcall.bundle.task_extraction) = Content(ResultOf(pcall.text, 0))

\* two attempts raised and the third, the last one allowed, succeeded
C10_Witness ==
    /\ PCValid /\ pcall.pc = "returned" /\ pcall.max_attempts = 3
    /\ pcall.tries = <<"AttributeError", "ModelInferenceError", "ok">>
    /\ pcall.waits = <<100, 200>>

\* C11: in a call of process_communication the waits taken so far are exactly
\* backoff_factor * n for each failed attempt n that had n < max_attempts, in
\* order, when backoff_factor > 0; there is none when backoff_factor is 0 and
\* none after the last attempt.
C11_BackoffWaits ==
    pcall.pc # "idle"
    => LET waited == IF pcall.backoff_factor > 0
                     THEN {n \in Failures(pcall.tries) : n < pcall.max_attempts}
                     ELSE {}
       IN  /\ Len(pcall.waits) = Cardinality(waited)
           /\ waited = 1..Cardinality(waited)
           /\ \A n \in waited : pcall.waits[n] = pcall.backoff_factor * n

\* every attempt failed: a wait after each but the last
C11_Witness ==
    /\ PCValid /\ pcall.pc = "raised" /\ pcall.backoff_factor > 0
    /\ pcall.max_attempts = MaxAttempts
    /\ Failures(pcall.tries) = 1..MaxAttempts
    /\ Len(pcall.waits) = MaxAttempts - 1

\* C12: process_communication starts a further attempt only after an attempt
\* that raised: an attempt that completes is returned, its bundle holding the
\* extraction result whatever its confidence and validity.
C12_NoRetryOnLowConfidence ==
    PCValid
    => /\ pcall.attempt <= Cardinality(Failures(pcall.tries)) + 1
       /\ (\E i \in 1..Len(pcall.tries) : pcall.tries[i] = "ok")
          => /\ pcall.pc = "returned"
             /\ pcall.bundle # NoneObj
             /\ pcall.bundle.task_extraction.kind = "result"

\* the first attempt produced an invalid, low-confidence extraction and was
\* returned although attempts were left
C12_Witness ==
    /\ PCValid /\ pcall.pc = "returned" /\ pcall.attempt = 1 /\ pcall.max_attempts > 1
    /\ ~pcall.bundle.task_extraction.valid
    /\ RatLess(pcall.bundle.task_extraction.final_confidence, Rat(WarnThreshold, 1))

\* C13: a call with empty or whitespace-only text, or with an empty channel_type,
\* has raised a ValueError without starting an attempt, calling a collaborator
\* or waiting.
C13_ValidationFirst ==
    (pcall.pc # "idle" /\ (Strip(pcall.text) = << >> \/ Strip(pcall.channel_type) = << >>))
    => /\ pcall.pc = "raised" /\ pcall.exc.type = "ValueError"
       /\ pcall.attempt = 0 /\ pcall.tries = << >> /\ pcall.waits = << >>
       /\ pcall.processed_text_output = NoneObj /\ pcall.entity_result = NoneObj
       /\ th[Main].pc = "idle"

\* a whitespace-only text with a valid channel was refused
C13_Witness ==
    /\ pcall.pc = "raised" /\ pcall.text = TxtBlank /\ pcall.channel_type = <<"email">>
    /\ pcall.max_attempts = MaxAttempts /\ pcall.backoff_factor > 0

RatEq(a, b) == a.num * b.den = b.num * a.den
RatLeq(a, b) == a.num * b.den <= b.num * a.den
Clamp01(r) == IF RatLess(r, Rat(0, 1)) THEN Rat(0, 1)
              ELSE IF RatLess(Rat(1000, 1), r) THEN Rat(1000, 1) ELSE r
Fused == fn.pc = "returned" /\ fn.op = "extract_task"
Validated == fn.pc = "returned" /\ fn.op = "validate_task"

C18_ValidateTask ==
    Validated
    => LET t == fn.task_data
           thr == Rat(fn.confidence_threshold, 1)
           complete == FieldSet \subseteq DOMAIN t
           typed == complete /\ IsStrOrNone(t.title) /\ IsDict(t.confidence_scores)
           combined == GetCombined(t.confidence_scores)
       IN  /\ ~complete => ~fn.out.valid
           /\ (complete /\ ~typed) => ~fn.out.valid
           /\ RatLess(fn.out.final_confidence, thr) => ~fn.out.valid
           /\ (typed /\ RatLeq(Rat(0, 1), combined) /\ RatLeq(combined, Rat(1000, 1))
                     /\ RatLeq(thr, combined))
              => (fn.out.valid /\ fn.out.error = << >> /\ fn.out.final_confidence = combined)

\* a complete task with a title that is not a string was refused although its
\* confidence reaches the threshold
C18_Witness ==
    /\ Validated /\ FieldSet \subseteq DOMAIN fn.task_data
    /\ fn.task_data.title = "<int 42>"
    /\ IsDict(fn.task_data.confidence_scores)
    /\ GetCombined(fn.task_data.confidence_scores) = Rat(600, 1)
    /\ fn.confidence_threshold = 600
    /\ ~fn.out.valid

\* C19: validate_task on a task lacking a required key answers valid=false with
\* the "Missing required field" message naming a key that is missing, whatever
\* the other keys and the confidence are.
C19_MissingField ==
    (Validated /\ ~(FieldSet \subseteq DOMAIN fn.task_data))
    => /\ ~fn.out.valid
       /\ Len(fn.out.error) = 2
       /\ fn.out.error[1] = "Missing required field: "
       /\ fn.out.error[2] \in FieldSet \ DOMAIN fn.task_data

\* only the deadline is missing; title and confidence would pass
C19_Witness ==
    /\ Validated /\ FieldSet \ DOMAIN fn.task_data = {"deadline"}
    /\ fn.task_data.title = "fix bug"
    /\ IsDict(fn.task_data.confidence_scores)
    /\ GetCombined(fn.task_data.confidence_scores) = Rat(1000, 1)
    /\ fn.out.error = <<"Missing required field: ", "deadline">>

\* C20: a complete, well-typed task whose combined_confidence is below 0 or
\* above 1 gets valid=false with the out-of-range message, never the
\* below-threshold message.
C20_OutOfRange ==
    (/\ Validated /\ FieldSet \subseteq DOMAIN fn.task_data
     /\ IsStrOrNone(fn.task_data.title) /\ IsDict(fn.task_data.confidence_scores)
     /\ LET combined == GetCombined(fn.task_data.confidence_scores)
        IN  RatLess(combined, Rat(0, 1)) \/ RatLess(Rat(1000, 1), combined))
    => /\ ~fn.out.valid
       /\ fn.out.error = OutOfRangeMsg
       /\ fn.out.error # BelowThresholdMsg

\* a negative combined_confidence, which is also below the threshold
C20_Witness ==
    /\ Validated /\ FieldSet \subseteq DOMAIN fn.task_data
    /\ IsStrOrNone(fn.task_data.title) /\ IsDict(fn.task_data.confidence_scores)
    /\ RatLess(GetCombined(fn.task_data.confidence_scores), Rat(0, 1))
    /\ fn.confidence_threshold = 600
    /\ fn.out.error = OutOfRangeMsg

BPArgsValid == bproc.pc # "idle" /\ Strip(bproc.channel_type) # << >> /\ bproc.batch_size > 0
IsErrorEntry(r) == DOMAIN r = {"error"}
IsBundleFor(r, text) ==
    /\ DOMAIN r = {"processed_text_output", "entity_result", "task_extraction"}
    /\ r.processed_text_output.cleaned_text = clean_text(text)
    /\ Content(r.task_extraction) = Content(ResultOf(text, 0))

\* C14: for any list of texts and any positive batch_size, batch_process returns
\* as many results as texts, result i being the bundle or the error entry made
\* for texts[i], and it worked through chunks of min(batch_size, len(texts))
\* items, the last one possibly shorter.
C14_BatchProcessOrder ==
    (BPArgsValid /\ bproc.pc = "returned")
    => LET n == Len(bproc.texts)
           size == Min(bproc.batch_size, n)
       IN  /\ Len(bproc.results) = n
           /\ \A i \in 1..n : \/ IsErrorEntry(bproc.results[i])
                              \/ IsBundleFor(bproc.results[i], bproc.texts[i])
           /\ SumSeq(bproc.chunks) = n
           /\ \A c \in 1..Len(bproc.chunks) :
                /\ bproc.chunks[c] >= 1 /\ bproc.chunks[c] <= size
                /\ c < Len(bproc.chunks) => bproc.chunks[c] = size

\* two chunks, a bundle in the second one and an error entry in the first
C14_Witness ==
    /\ BPArgsValid /\ bproc.pc = "returned"
    /\ Len(bproc.texts) = MaxLen /\ bproc.batch_size = 2 /\ Len(bproc.chunks) = 2
    /\ IsErrorEntry(bproc.results[1])
    /\ IsBundleFor(bproc.results[MaxLen], bproc.texts[MaxLen])

\* C15: batch_process with valid arguments never raises because of an item: an
\* item whose process_communication call raised has the error entry with the
\* exception's message at its index, every other item its bundle.
C15_ItemErrorsIsolated ==
    BPArgsValid
    => /\ bproc.pc # "raised"
       /\ bproc.pc = "returned"
          => \A i \in 1..Len(bproc.texts) :
                /\ (Strip(bproc.texts[i]) = << >> \/ bproc.max_attempts = 0
                      \/ bproc.log[i] = "raised")
                   => IsErrorEntry(bproc.results[i])
                /\ bproc.log[i] = "returned" => IsBundleFor(bproc.results[i], bproc.texts[i])

\* a refused item between two items that succeeded
C15_Witness ==
    /\ BPArgsValid /\ bproc.pc = "returned" /\ Len(bproc.texts) = 3
    /\ bproc.log = <<"returned", "raised", "returned">>
    /\ bproc.texts[2] = TxtBlank
    /\ IsErrorEntry(bproc.results[2])
    /\ IsBundleFor(bproc.results[1], bproc.texts[1])
    /\ IsBundleFor(bproc.results[3], bproc.texts[3])

\* C16: inside batch_process an item whose attempt failed with attempts left and
\* backoff_factor > 0 is waiting: its call has not ended and the wait it is due
\* has been taken, while the rest of the chunk is not held up.
C16_BackoffBlocksOnlyItsItem ==
    (/\ bproc.pc = "running" /\ pcall.pc # "idle" /\ pcall.backoff_factor > 0
     /\ pcall.tries # << >> /\ Failures(pcall.tries) = 1..Len(pcall.tries)
     /\ Len(pcall.tries) < pcall.max_attempts)
    => /\ pcall.pc # "raised"
       /\ Len(pcall.waits) = Len(pcall.tries)

\* the call of extract_task the synchronous caller is in has ended
Ended == th[Main].op = "extract_task" /\ th[Main].pc \in {"ret", "raised"}
\* neither collaborator failed in that call
CollaboratorsAnswered == th[Main].exc \notin {"ValueError", "ModelInferenceError"}
\* the combined confidence of a text's extraction is within [0, 1] and below the threshold
LowConfidence(text) ==
    LET combined == ResultOf(text, 0).task_info.confidence_scores.combined_confidence
    IN  /\ RatLeq(Rat(0, 1), combined) /\ RatLeq(combined, Rat(1000, 1))
        /\ RatLess(combined, Rat(TaskConfidence, 1))

\* C21: an extract_task call whose collaborators answer and whose
\* combined_confidence is within [0,1] but below the threshold does not raise: it
\* returns valid=false with the below-threshold message, the task_info mapped
\* from the entities, and final_confidence equal to combined_confidence.
C21_LowConfidenceReturned ==
    (Ended /\ CollaboratorsAnswered /\ LowConfidence(th[Main].text))
    => /\ th[Main].pc = "ret"
       /\ ~th[Main].out.valid
       /\ th[Main].out.error = BelowThresholdMsg
       /\ th[Main].out.final_confidence
              = th[Main].out.task_info.confidence_scores.combined_confidence
       /\ th[Main].out.task_info = ResultOf(th[Main].text, 0).task_info

\* the label word that stands for each mapped field
FieldWord(field) ==
    CASE field = "title" -> "TITLE"
      [] field = "assignee" -> "ASSIGNEE"
      [] field = "deadline" -> "DEADLINE"
      [] field = "priority" -> "PRIORITY"
MappedFields == {"title", "assignee", "deadline", "priority"}
\* the positions of the entities whose type matches a field
Matching(ents, field) == {i \in 1..Len(ents) : LabelHas(ents[i].entity, FieldWord(field))}
\* the token of the first of them, None without any
FirstMatch(ents, field) ==
    IF Matching(ents, field) = {} THEN None
    ELSE ents[CHOOSE i \in Matching(ents, field) : \A j \in Matching(ents, field) : i <= j].token

C23_AllKeysPresent ==
    (Ended /\ th[Main].pc = "ret") => FieldSet \subseteq DOMAIN th[Main].out.task_info

\* an invalid result without any mapped field, served from the cache
C23_Witness ==
    /\ Ended /\ th[Main].pc = "ret" /\ th[Main].hit
    /\ ~th[Main].out.valid
    /\ \A field \in MappedFields : th[Main].out.task_info[field] = None

\* C24: extract_task on an empty or whitespace-only text raises a validation
\* error before the intent classifier or the entity recognizer is called, and
\* leaves the cache as it was.
C24_BlankTextRejectedFirst ==
    (Ended /\ Strip(th[Main].text) = << >>)
    => /\ th[Main].pc = "raised"
       /\ th[Main].exc \in {"ValidationError", "ValueError"}
       /\ "classify" \notin Range(th[Main].called)
       /\ "extract_entities" \notin Range(th[Main].called)
       /\ cache_map = th[Main].before

\* how often a collaborator was called in the caller's extract_task call
TimesCalled(name) ==
    Cardinality({i \in 1..Len(th[Main].called) : th[Main].called[i] = name})
\* that call ended by an exception of a collaborator: one was called and no
\* result was built
CollaboratorFailed ==
    Ended /\ th[Main].pc = "raised" /\ th[Main].called # << >> /\ th[Main].val = NoneObj

\* C25: an exception of the intent classifier or the entity recognizer reaches
\* the caller of extract_task as it was raised; each collaborator was called at
\* most once, no result is returned and the cache is as it was before the call.
C25_CollaboratorErrorPropagates ==
    CollaboratorFailed
    => /\ th[Main].exc = IF TimesCalled("extract_entities") = 0
                            /\ ClassifyRaises(clean_text(th[Main].text))
                         THEN "ValueError" ELSE "ModelInferenceError"
       /\ TimesCalled("classify") <= 1 /\ TimesCalled("extract_entities") <= 1
       /\ th[Main].out = NoneObj
       /\ cache_map = th[Main].before

\* the recognizer failed after the classifier had answered, the cache being in
\* use and not empty
C25_Witness ==
    /\ CollaboratorFailed /\ th[Main].exc = "ModelInferenceError"
    /\ th[Main].called = <<"clean_text", "classify", "extract_entities">>
    /\ th[Main].use_cache /\ cache_map # << >>

\* C26: a fault of the result cache during extract_task, on lookup or on store,
\* is not fatal: whenever the collaborators answer, the call returns the result
\* it computed, and no exception of the cache reaches the caller.
C26_CacheFaultNonFatal ==
    (Ended /\ CollaboratorsAnswered)
    => /\ th[Main].exc # "KeyError"
       /\ th[Main].pc = "ret"
       /\ Content(th[Main].out) = Content(ResultOf(th[Main].text, 0))

\* the direct call of a cache operation has ended
GetEnded == th[Main].op = "get" /\ th[Main].pc \in {"ret", "raised"}
SetEnded == th[Main].op = "set" /\ th[Main].pc \in {"ret", "raised"}
\* the entries of m other than k's, in their order, then k's entry with value v
MovedLast(m, k, v) == Remove(m, k) \o <<[key |-> k, value |-> v]>>

\* C27: a get of a present key returns the value last set for the key and makes
\* the entry the most recently used one, the keys and every value staying as
\* they were; a get of an absent key reports a miss and leaves contents and
\* order unchanged.
C27_GetFrame ==
    GetEnded
    => LET k == th[Main].key
           b == th[Main].before
       IN  /\ th[Main].pc = "ret"
           /\ IF k \in Keys(b)
              THEN /\ th[Main].out = th[Main].last_set[k]
                   /\ cache_map = MovedLast(b, k, ValueAt(b, k))
                   /\ Keys(cache_map) = Keys(b)
                   /\ \A x \in Keys(b) : ValueAt(cache_map, x) = ValueAt(b, x)
              ELSE /\ th[Main].out = NoneObj
                   /\ cache_map = b

\* a hit on the least recently used of two entries, whose value had been replaced
C27_Witness ==
    /\ GetEnded /\ Len(th[Main].before) = 2
    /\ th[Main].before[1].key = th[Main].key
    /\ th[Main].out.tag = "v2"
    /\ cache_map[2].key = th[Main].key

\* what a set that has ended is to have done to the cache
SetFrame ==
    LET k == th[Main].key
        v == th[Main].val
        b == th[Main].before
    IN  /\ th[Main].pc = "ret"
        /\ cache_map = IF k \in Keys(b) THEN MovedLast(b, k, v)
                       ELSE IF Len(b) < capacity THEN Append(b, [key |-> k, value |-> v])
                       ELSE Append(Tail(b), [key |-> k, value |-> v])
        /\ k \in Keys(b) => Keys(cache_map) = Keys(b)
        /\ (k \notin Keys(b) /\ Len(b) < capacity) => Keys(cache_map) = Keys(b) \cup {k}

C29_InputImmutable ==
    pcall.pc # "idle"
    => /\ pcall.text = pcall.submitted.text
       /\ pcall.channel_type = pcall.submitted.channel_type
       /\ pcall.use_task_cache = pcall.submitted.use_task_cache
       /\ pcall.text_processor_options = pcall.submitted.text_processor_options

\* the global indices (from 0) of the items of chunk c of the running batch
ChunkIndices(c) ==
    {ChunkStart(c, batch.batch_size) + k :
        k \in 0..(ChunkLen(c, Len(batch.texts), batch.batch_size) - 1)}
\* how often the assembly loop writes slot idx
Writes(idx) ==
    Cardinality({j \in 1..Len(batch.partial_results) : batch.partial_results[j].idx = idx})

\* C30: the chunks of a batch are contiguous runs of at most batch_size indices
\* that cover 0..len(L)-1, every index in exactly one chunk; a worker extracts
\* the items of its chunk one after the other in input order; and the assembly
\* writes every slot of the pre-sized results exactly once, at the item's
\* original index (no slot is written before that).
C30_ChunksPartitionInputs ==
    batch.pc # "idle"
    => LET n == Len(batch.texts)
       IN  /\ \A c \in ChunkIds :
                /\ Cardinality(ChunkIndices(c)) \in 1..batch.batch_size
                /\ ChunkIndices(c) \subseteq 0..(n - 1)
           /\ \A idx \in 0..(n - 1) :
                Cardinality({c \in ChunkIds : idx \in ChunkIndices(c)}) = 1
           /\ \A c \in ChunkIds :
                LET done == batch.chunks[c].chunk_results
                    start == ChunkStart(c, batch.batch_size)
                IN  /\ Len(done) = batch.chunks[c].i
                    /\ \A k \in 1..Len(done) :
                         /\ done[k].idx = start + k - 1
                         /\ Content(done[k].res) = Content(ResultOf(batch.texts[start + k], 0))
                    /\ th[c].pc # "idle" => th[c].text = batch.texts[start + Len(done) + 1]
           /\ Len(batch.results) = n
           /\ IF batch.pc = "returned"
              THEN \A idx \in 0..(n - 1) :
                     /\ Writes(idx) = 1
                     /\ \E j \in 1..Len(batch.partial_results) :
                          /\ batch.partial_results[j].idx = idx
                          /\ batch.results[idx + 1] = batch.partial_results[j].res
              ELSE \A i \in 1..n : batch.results[i] = NoneObj

\* three texts in chunks of two, the second chunk collected before the first
C30_Witness ==
    /\ batch.pc = "returned" /\ Len(batch.texts) = 3 /\ batch.batch_size = 2
    /\ batch.partial_results[1].idx = 2
    /\ batch.results[3] = batch.partial_results[1].res
    /\ batch.results[1] = batch.partial_results[2].res

\* the stages of one extraction that call out, in the order of the code
StageCalls == <<"clean_text", "classify", "extract_entities">>
IsPrefix(a, b) == Len(a) <= Len(b) /\ SubSeq(b, 1, Len(a)) = a
\* the program counters of the cache store
StorePcs == {"set_check", "set_len", "set_pop", "set_evict", "set_put"}
\* the program counters of the cache lookup
LookupPcs == {"get_check", "get_pop", "get_put"}

\* one step of the extraction an attempt of process_communication is in
StageStep ==
    LET r == th[Main]
        r2 == th'[Main]
    IN  (pcall.pc = "extract_task" /\ r.op = "extract_task")
        => \* cleaning, classification, recognition are called in this order, once each
           /\ (IsPrefix(r.called, r2.called) \/ r2 = IdleThread)
           /\ r2 # IdleThread => IsPrefix(r2.called, StageCalls)
           \* the recognizer is called only when the classifier has returned
           /\ (r2.called # r.called /\ "extract_entities" \in Range(r2.called))
              => (r.cls # NoneObj /\ r.pc = "et_ner")
           \* fusion and validation have run before the store begins
           /\ r2.pc \in StorePcs
              => /\ r2.called = StageCalls
                 /\ r2.val = BuildResult(r2.cls, extract_entities(clean_text(r2.text),
                                                                   TaskConfidence), r2.oid)
           \* outside the lookup and the store the cache is not touched
           /\ r.pc \notin (StorePcs \cup LookupPcs) => cache_map' = cache_map
           \* a failing stage writes nothing and no stage follows it
           /\ (r2.pc = "raised" /\ r.pc # "raised") => (cache_map' = r.before /\ r2.out = NoneObj)
           /\ r.pc = "raised" => (r2 = IdleThread /\ cache_map' = cache_map)
           \* done follows the store, or the validation when the cache is not used
           /\ (r2.pc = "ret" /\ r.pc # "ret" /\ ~r2.hit)
              => /\ r2.called = StageCalls
                 /\ r.pc = IF r.use_cache THEN "set_put" ELSE "et_ner"

C32_ItemRetriedAsDirectCall ==
    (bproc.pc = "running" /\ PCValid /\ pcall.max_attempts >= 1 /\ pcall.pc = "raised")
    => /\ Len(pcall.tries) = pcall.max_attempts
       /\ pcall.exc = AggregatedError(pcall.max_attempts, pcall.tries[Len(pcall.tries)])

\* C33: in every result extract_task computes the description is set: the string
\* derived from the intent label when the classifier returns a label, the fixed
\* marker when it returns none; the entities have no part in it.
C33_DescriptionFromIntent ==
    Fused
    => fn.out.task_info.description
         = IF fn.classification_result.label = None
           THEN <<"No distinct classification label">>
           ELSE <<"Classified intent: ", fn.classification_result.label>>

\* a label was returned and the first entity is typed as a description
C33_Witness ==
    /\ Fused /\ fn.classification_result.label = "TASK_RELEVANT"
    /\ Len(fn.entities_list) = 2
    /\ fn.entities_list[1].entity = <<"B", "DESCRIPTION">>
    /\ fn.entities_list[1].token = "report"
    /\ fn.out.task_info.description = <<"Classified intent: ", "TASK_RELEVANT">>

\* C34: a call of extract_task with use_cache=false neither reads nor writes the
\* cache: from its first step to its end the cache holds the entries it held
\* before, in the same order, no step of the call is a cache operation, and a
\* result it returns is a new one computed from the collaborators' answers, also
\* when its key is cached.
C34_NoCacheWithoutUseCache ==
    (th[Main].op = "extract_task" /\ ~th[Main].use_cache)
    => /\ cache_map = th[Main].before
       /\ th[Main].pc \notin (StorePcs \cup LookupPcs)
       /\ ~th[Main].hit
       /\ th[Main].pc = "ret"
          => /\ th[Main].called = StageCalls
             /\ th[Main].out.oid \notin OidsIn(cache_map)
             /\ Content(th[Main].out) = Content(ResultOf(th[Main].text, 0))

\* the key was cached, least recently used of two entries, and the call returned
C34_Witness ==
    /\ Ended /\ th[Main].pc = "ret" /\ ~th[Main].use_cache
    /\ Len(cache_map) = 2 /\ cache_map[1].key = th[Main].key
    /\ Content(cache_map[1].value) = Content(th[Main].out)

\* C35: the key separates the inputs: a call of extract_task whose key is the one
\* of an earlier call has that call's channel type and text, and a hit returns
\* what is computed for the call's own (channel type, text).
C35_KeySeparatesInputs ==
    (th[Main].op = "extract_task" /\ first # NoneObj)
    => /\ th[Main].key = CacheKey(first.fmt, first.text)
          => (th[Main].fmt = first.fmt /\ th[Main].text = first.text)
       /\ (th[Main].pc = "ret" /\ th[Main].hit)
          => Content(th[Main].out) = Content(ResultOf(th[Main].text, 0))

\* C36: in a batch_extract_tasks call with use_cache=true, more than one worker
\* and a cache of capacity at least 1, no interleaving of the workers' get and
\* set steps makes an extraction raise an error of the cache or return another
\* value than the one computed for its text.
C36_CacheRacesHarmless ==
    (batch.pc # "idle" /\ batch.use_cache /\ batch.max_workers > 1 /\ capacity >= 1)
    => \A c \in ChunkIds :
         /\ th[c].exc # "KeyError"
         /\ batch.exc # "KeyError"
         /\ th[c].pc = "ret" => Content(th[c].out) = Content(ResultOf(th[c].text, 0))

\* the entity-extraction step of an attempt, taken with the recognizer failing
NerFailedStep ==
    /\ pcall.pc = "entities"
    /\ pcall'.pc # "entities"
    /\ pcall'.entity_outcome = "ner_failed"

\* C37: when the recognizer fails in the entity-extraction step of
\* process_communication, extract_task_entities returns an empty entity list
\* and writes nothing into its cache, and the attempt goes on to extract_task:
\* no failure is recorded, no error kept, no wait made and no attempt added.
C37_NerFailureSwallowed ==
    [][NerFailedStep =>
          /\ pcall'.entity_result.entities = << >>
          /\ \A k \in DOMAIN ee'.cache : k \in DOMAIN ee.cache /\ ee'.cache[k] = ee.cache[k]
          /\ pcall'.pc = "extract_task"
          /\ pcall'.tries = pcall.tries
          /\ pcall'.last_error = pcall.last_error
          /\ pcall'.waits = pcall.waits
          /\ pcall'.attempt = pcall.attempt]_vars

\* a call whose recognizer failed returned from its first attempt, with no entities
C37_Witness ==
    /\ pcall.pc = "returned"
    /\ pcall.entity_outcome = "ner_failed"
    /\ pcall.attempt = 1
    /\ pcall.tries = <<"ok">>
    /\ pcall.bundle.entity_result.entities = << >>
    /\ pcall.max_attempts > 1

\* an extract_task_entities call is over and its caller holds what it returned
EEEnded == fn.pc = "returned" /\ fn.method = "extract_task_entities"

\* C38: a call of extract_task_entities that returns a cached result returns
\* the data of an entry that, when the call looked it up, had been stored at
\* most cache_ttl seconds earlier; and no entry that was older than cache_ttl
\* when the call started is left in the cache by it.
C38_NothingOlderThanTTL ==
    EEEnded =>
       LET key == EECacheKey(fn.text, <<"email">>, fn.extraction_config)
       IN  /\ fn.outcome = "hit" =>
                /\ key \in DOMAIN fn.before
                /\ fn.before[key] = [timestamp |-> fn.served, data |-> fn.ret]
                /\ fn.served <= fn.looked_at
                /\ fn.looked_at - fn.served <= ee.cache_ttl
           /\ \A k \in DOMAIN fn.before :
                fn.started - fn.before[k].timestamp > ee.cache_ttl =>
                    \/ k \notin DOMAIN ee.cache
                    \/ ee.cache[k].timestamp >= fn.started

\* a call was served an entry exactly cache_ttl old, and an older entry of
\* another key was removed by it
C38_Witness ==
    /\ EEEnded
    /\ fn.outcome = "hit"
    /\ ee.cache_ttl > 0
    /\ fn.looked_at - fn.served = ee.cache_ttl
    /\ \E k \in DOMAIN fn.before : k \notin DOMAIN ee.cache

====
